---- MODULE Spec2Model ----
(***************************************************************************)
(* Model of include/microscopes/hmm/model.hpp: the ragged container        *)
(* meta_vector<T> and the beam sampler hmm<N> for the HDP-HMM.             *)
(*                                                                         *)
(* Numbers.  A float is modelled as an exact fraction <<n, d>> with        *)
(* n, d >= 0, kept in lowest terms; <<1, 0>> is +infinity and <<0, 0>> is  *)
(* NaN, so that x / 0 and 0 / 0 come out as IEEE division gives them.      *)
(* Rounding is not modelled.                                               *)
(*                                                                         *)
(* Indices.  The code counts from 0, TLA+ sequences from 1: state k of the *)
(* code is entry k + 1 of a row.  State labels stored in s_ keep the       *)
(* code's values (0 .. K-1).                                               *)
(*                                                                         *)
(* Random and external draws (uniform, Beta, Dirichlet, categorical) are   *)
(* choices from small sets of values of their support.                     *)
(*                                                                         *)
(* Out-of-range element accesses are undefined behaviour.  A read yields   *)
(* any value of a small set, a write is lost, and the stage may instead    *)
(* stop the program (action Fault).                                        *)
(***************************************************************************)
EXTENDS Integers, Sequences, FiniteSets, TLC

(* ------------------------------ bounds -------------------------------- *)

\* alphabet size: the template parameter N of hmm<N>
N == 2
\* the model explores the growth loop up to this many states
MaxK == 3
\* length of the observation sequence
SeqLen == 2
\* a safety bound on K, as a caller would configure it
KBound == 1
\* largest value an out-of-range read of a count yields
MaxCount == 1
\* ragged-array exploration: number of rows and row length
MaxRows == 3
MaxRowLen == 2

(* ----------------------------- fractions ------------------------------ *)

RECURSIVE GCD(_, _)
GCD(a, b) == IF b = 0 THEN a ELSE GCD(b, a % b)

RNorm(x) ==
    LET g == GCD(x[1], x[2])
    IN  IF g = 0 THEN <<0, 0>> ELSE <<x[1] \div g, x[2] \div g>>

Zero == <<0, 1>>
One == <<1, 1>>
Inf == <<1, 0>>
NaN == <<0, 0>>
Frac(n, d) == RNorm(<<n, d>>)

IsNaN(x) == x[1] = 0 /\ x[2] = 0
RMul(x, y) == RNorm(<<x[1] * y[1], x[2] * y[2]>>)
RDiv(x, y) == RNorm(<<x[1] * y[2], x[2] * y[1]>>)
RAdd(x, y) ==
    IF IsNaN(x) \/ IsNaN(y) THEN NaN
    ELSE IF x[2] = 0 \/ y[2] = 0 THEN Inf
    ELSE RNorm(<<x[1] * y[2] + y[1] * x[2], x[2] * y[2]>>)
\* 1 - x, for x in [0, 1]
ROneMinus(x) == IF IsNaN(x) THEN NaN ELSE RNorm(<<x[2] - x[1], x[2]>>)
\* comparisons: every comparison with NaN is false
RLt(x, y) == ~IsNaN(x) /\ ~IsNaN(y) /\ x[1] * y[2] < y[1] * x[2]
RGt(x, y) == RLt(y, x)
RGe(x, y) == ~IsNaN(x) /\ ~IsNaN(y) /\ x[1] * y[2] >= y[1] * x[2]

RECURSIVE RSumSeq(_)
RSumSeq(v) == IF v = <<>> THEN Zero ELSE RAdd(RSumSeq(Tail(v)), Head(v))

VARIABLES
    \* meta_vector under test
    mv, mvop, mvres,
    \* hmm fields
    data_, s_, u_, m_, counts_, pi_, phi_, beta_, max_pi, K,
    \* position in sample_beam; locals of the stage just run: min_u of
    \* sample_u, new_pi of the call sample_pi_row(wrow), n_ij and the value
    \* m_new stored to m_[i][j] in one iteration of sample_m; whether sample_s
    \* divided by a zero total (underflow) or drew from a vector with no
    \* positive entry (blind)
    pc, min_u, wrow, new_pi, underflow, blind, n_ij, m_new

mvvars == <<mv, mvop, mvres>>
hmmvars == <<data_, s_, u_, m_, counts_, pi_, phi_, beta_, max_pi, K,
             pc, min_u, wrow, new_pi, underflow, blind, n_ij, m_new>>
vars == <<mv, mvop, mvres, data_, s_, u_, m_, counts_, pi_, phi_, beta_,
          max_pi, K, pc, min_u, wrow, new_pi, underflow, blind, n_ij, m_new>>

(* ---------------------------- meta_vector ----------------------------- *)

Rep(n, x) == [i \in 1..n |-> x]

\* meta_vector(size_t size): rows default-constructed, i.e. empty
MVCtorRows(n) == Rep(n, <<>>)
\* meta_vector(size_t size_1, size_t size_2): value-initialised elements
MVCtorRect(n1, n2, zero) == Rep(n1, Rep(n2, zero))
\* meta_vector(std::vector<size_t> size)
MVCtorSizes(size, zero) == [i \in 1..Len(size) |-> Rep(size[i], zero)]
\* push_back
MVPushBack(d, vec) == Append(d, vec)
\* size(): the result vector is created with data_.size() zero entries and
\* the row lengths are then appended to it
MVSize(d) == Rep(Len(d), 0) \o [i \in 1..Len(d) |-> Len(d[i])]
\* sum(i) over integer elements
RECURSIVE SumSeq(_)
SumSeq(v) == IF v = <<>> THEN 0 ELSE Head(v) + SumSeq(Tail(v))
MVSum(d, i) == SumSeq(d[i + 1])

RowLens == 0..MaxRowLen
Elems == {0, 1}
SeqsUpTo(S, n) == UNION {[1..k -> S] : k \in 0..n}

MVInit ==
    /\ mv = <<>>
    /\ mvop = "ctor"
    /\ mvres = <<>>

MVConstruct ==
    \E size \in SeqsUpTo(RowLens, MaxRows) :
        /\ mv' = MVCtorSizes(size, 0)
        /\ mvop' = "ctor"
        /\ mvres' = size
        /\ UNCHANGED hmmvars

MVAppend ==
    /\ Len(mv) < MaxRows
    /\ \E vec \in SeqsUpTo(Elems, MaxRowLen) :
        /\ mv' = MVPushBack(mv, vec)
        /\ mvop' = "push_back"
        /\ mvres' = <<>>
        /\ UNCHANGED hmmvars

MVSizeCall ==
    /\ mv' = mv
    /\ mvop' = "size"
    /\ mvres' = MVSize(mv)
    /\ UNCHANGED hmmvars

MVSumCall ==
    \E i \in 0..(Len(mv) - 1) :
        /\ mv' = mv
        /\ mvop' = "sum"
        /\ mvres' = <<MVSum(mv, i)>>
        /\ UNCHANGED hmmvars

(* -------------------------- external draws ---------------------------- *)

Symbols == 0..(N - 1)
\* std::uniform_real_distribution<float>(0.0, 1.0)
UDraws == {Frac(1, 8), Frac(3, 4)}
\* distributions::sample_beta
BetaDraws == {Frac(1, 2)}
\* distributions::sample_dirichlet: points of the open simplex of the given
\* dimension (the concentration parameters shape only the probabilities)
Dirichlet(dim) ==
    {[j \in 1..dim |-> IF j = h THEN Frac(2, dim + 1) ELSE Frac(1, dim + 1)] :
        h \in 1..dim}
\* distributions::sample_from_likelihoods: an index of positive likelihood;
\* with no positive entry (all zero, or NaN) the result is some index
SampleFromLikelihoods(v) ==
    LET P == {k \in 1..Len(v) : RGt(v[k], Zero)}
    IN  IF P # {} THEN P ELSE 1..Len(v)
\* distributions::sample_from_scores_overwrite over n scores: an index below
\* n; over no scores the result is outside the provider's contract (-1 stands
\* for the size_t value SIZE_MAX)
SampleFromScores(n) == IF n > 0 THEN 0..(n - 1) ELSE {-1, 0}
\* values an indeterminate float may hold
IndeterminateFloats == {Zero, Frac(2, 1)}
\* values an out-of-range read of an emission probability may yield
PhiVals == {Zero, Frac(1, 2)}

(* ------------------------------- hmm ---------------------------------- *)

\* the observation sequences the sampler is constructed with
\* one sequence of SeqLen observations, or SeqLen sequences of one each
DataSets ==
    { <<[t \in 1..SeqLen |-> t % N]>>,
      [i \in 1..SeqLen |-> <<i % N>>] }

\* hmm(gamma, alpha0, H, data).  max_pi is not initialised.  The
\* per-sequence containers are taken in the shape lines 98-101 declare for
\* them, that of the data, with zero elements.  As coded, u_(data.size())
\* receives the result of size() (MVSize: twice as many entries as rows)
\* and s_ has no initialiser at all, so that every access s_[i][j] of the
\* stages would be out of range and no stage would have defined behaviour;
\* the stages are modelled from the declared shape, and size() itself is
\* modelled by MVSize and exercised by MVSizeCall and by sample_s, line 128.
HmmInit ==
    /\ data_ \in DataSets
    /\ s_ = [i \in 1..Len(data_) |-> Rep(Len(data_[i]), 0)]
    /\ u_ = [i \in 1..Len(data_) |-> Rep(Len(data_[i]), Zero)]
    /\ m_ = MVCtorRect(1, 1, 0)
    /\ counts_ = MVCtorRect(1, 1, 0)
    /\ pi_ = MVCtorRect(1, 2, Zero)
    /\ phi_ = MVCtorRect(1, N, Zero)
    /\ beta_ = Rep(2, Zero)
    /\ K = 1
    /\ max_pi \in IndeterminateFloats
    /\ pc = "u"
    /\ min_u = One
    /\ wrow = 0
    /\ new_pi = <<>>
    /\ underflow = FALSE
    /\ blind = FALSE
    /\ n_ij = 0 /\ m_new = 0

InRange(d, i, j) == i + 1 <= Len(d) /\ j + 1 <= Len(d[i + 1])

\* a > x ? a : x
RMaxC(a, x) == IF RGt(a, x) THEN a ELSE x
\* a < x ? a : x
RMinC(a, x) == IF RLt(a, x) THEN a ELSE x

RECURSIVE FoldMin(_, _)
FoldMin(acc, v) == IF v = <<>> THEN acc ELSE FoldMin(RMinC(acc, Head(v)), Tail(v))
RECURSIVE FoldMax(_, _)
FoldMax(acc, v) == IF v = <<>> THEN acc ELSE FoldMax(RMaxC(acc, Head(v)), Tail(v))
RECURSIVE Flatten(_)
Flatten(d) == IF d = <<>> THEN <<>> ELSE Head(d) \o Flatten(Tail(d))

\* sample_pi_row(i) given the Dirichlet draw np: every column of row i
\* receives np[i]; max_pi takes in the last component np[K].  The reads of
\* counts_ and beta_ enter only the concentration parameters alphas, which
\* shape the probabilities of the draw and not its support.
SamplePiRow(pi, maxpi, i, Kc, np) ==
    [ pi |-> [pi EXCEPT ![i + 1] =
                 [j \in 1..Len(pi[i + 1]) |->
                     IF j <= Kc + 1 THEN np[i + 1] ELSE pi[i + 1][j]]],
      max_pi |-> RMaxC(maxpi, np[Kc + 1]) ]

\* the slice value of one timestep: the uniform draw divided by the
\* probability of the transition taken
SliceValue(r, p) == RDiv(r, p)

Positions(d) == UNION {{<<i, t>> : t \in 1..Len(d[i])} : i \in 1..Len(d)}

PrevState(srow, t) == IF t = 1 THEN 0 ELSE srow[t - 1]

\* sample_u, lines 171-185: the slice values and their minimum; the two
\* loops visit every element of every row of u_
SampleU ==
    /\ pc = "u"
    /\ \E r \in [Positions(u_) -> UDraws] :
        /\ u_' = [i \in 1..Len(u_) |->
                    [t \in 1..Len(u_[i]) |->
                        SliceValue(r[<<i, t>>],
                                   pi_[PrevState(s_[i], t) + 1][s_[i][t] + 1])]]
    /\ min_u' = FoldMin(One, Flatten(u_'))
    /\ pc' = "grow"
    /\ UNCHANGED <<data_, s_, m_, counts_, pi_, phi_, beta_, max_pi, K, wrow, new_pi,
                   underflow, blind, n_ij, m_new>>
    /\ UNCHANGED mvvars

\* the increment left out
IncKForgotten(k) == k

\* K++
IncK(k) == k + 1

\* sample_u, lines 188-210: one iteration of the growth loop
GrowState ==
    /\ pc = "grow"
    /\ RGt(max_pi, min_u)
    /\ K < MaxK
    /\ \E np \in Dirichlet(K + 1), bk \in BetaDraws, pk \in [1..(K + 1) -> BetaDraws] :
        LET pushed == MVPushBack(pi_, Rep(K + 1, Zero))
            row == SamplePiRow(pushed, max_pi, K, K, np)
            bu == beta_[K + 1]
            split == [i \in 1..(K + 1) |->
                        LET pu == row.pi[i][K + 1]
                        IN  Append([row.pi[i] EXCEPT ![K + 1] = RMul(pu, pk[i])],
                                   RMul(pu, ROneMinus(pk[i])))]
        IN  /\ beta_' = Append([beta_ EXCEPT ![K + 1] = RMul(bu, bk)],
                               RMul(bu, ROneMinus(bk)))
            /\ pi_' = split
            /\ max_pi' = FoldMax(Zero,
                   Flatten([i \in 1..(K + 1) |-> <<split[i][K + 1], split[i][K + 2]>>]))
    /\ K' = IncK(K)
    /\ UNCHANGED <<data_, s_, u_, m_, counts_, phi_, pc, min_u, wrow, new_pi,
                   underflow, blind, n_ij, m_new>>
    /\ UNCHANGED mvvars

\* sample_u, line 188: the loop test fails
GrowExit ==
    /\ pc = "grow"
    /\ ~RGt(max_pi, min_u)
    /\ pc' = "s"
    /\ min_u' = One
    /\ UNCHANGED <<data_, s_, u_, m_, counts_, pi_, phi_, beta_, max_pi, K,
                   wrow, new_pi, underflow, blind, n_ij, m_new>>
    /\ UNCHANGED mvvars

\* sample_s, lines 136-147: the unnormalised forward probabilities of
\* timestep t given the normalised ones of timestep t - 1
Unnorm(t, prev, d, urow, pi, ph, Kc) ==
    [k \in 1..Kc |->
        IF t = 1
        THEN RMul(ph[k][d[1] + 1], IF RLt(urow[1], pi[1][k]) THEN One ELSE Zero)
        ELSE RMul(RSumSeq([l \in 1..Kc |->
                              IF RLt(urow[t], pi[l][k]) THEN prev[l] ELSE Zero]),
                  ph[k][d[t] + 1])]

\* sample_s, lines 150-152: division by total_prob, whatever its value
Normalize(v) == [k \in 1..Len(v) |-> RDiv(v[k], RSumSeq(v))]

RECURSIVE Forward(_, _, _, _, _, _)
\* sample_s, lines 131-153: rows 1 .. t of probs, each with its total_prob
Forward(t, d, urow, pi, ph, Kc) ==
    IF t = 0 THEN <<>>
    ELSE LET before == Forward(t - 1, d, urow, pi, ph, Kc)
             un == Unnorm(t, IF t = 1 THEN <<>> ELSE before[t - 1].probs,
                          d, urow, pi, ph, Kc)
         IN  Append(before, [probs |-> Normalize(un), total |-> RSumSeq(un)])

\* the backward pass without its slice test
ZeroOutSkipped(v, uval, pi, sNext) == v

\* sample_s, lines 158-162: zero the states that cannot precede sNext
ZeroOut(v, uval, pi, sNext) ==
    [k \in 1..Len(v) |-> IF RGe(uval, pi[k][sNext + 1]) THEN Zero ELSE v[k]]

\* sample_s, lines 156-166: the rows the backward pass may sample
BackwardRows(F, urow, pi, Kc) ==
    LET T == Len(urow)
    IN  { srow \in [1..T -> 0..(Kc - 1)] :
            /\ srow[T] + 1 \in SampleFromLikelihoods(F[T].probs)
            /\ \A t \in 2..T :
                  srow[t - 1] + 1 \in
                      SampleFromLikelihoods(ZeroOut(F[t - 1].probs, urow[t], pi, srow[t])) }

NoPositive(v) == \A k \in 1..Len(v) : ~RGt(v[k], Zero)

\* whether some draw of the backward pass was from a vector with no
\* positive entry
BlindDraw(F, urow, pi, srow) ==
    LET T == Len(urow)
    IN  \/ NoPositive(F[T].probs)
        \/ \E t \in 2..T : NoPositive(ZeroOut(F[t - 1].probs, urow[t], pi, srow[t]))

\* the values phi_[k][.] reads: row k of phi_ where it exists
PhiReads ==
    { [k \in 1..K |-> IF k <= Len(phi_) THEN phi_[k] ELSE g[k]] :
        g \in [(Len(phi_) + 1)..K -> [1..N -> PhiVals]] }

\* sample_s: line 128 builds counts_ with one empty row per entry of
\* pi_.size(); the loop of line 129 visits every sequence of the data; no
\* statement follows "Update counts"
SampleS ==
    /\ pc = "s"
    /\ counts_' = MVCtorRows(Len(MVSize(pi_)))
    /\ \E ph \in PhiReads :
        \E F \in {[i \in 1..Len(data_) |->
                     Forward(Len(data_[i]), data_[i], u_[i], pi_, ph, K)]} :
        \E B \in {[i \in 1..Len(data_) |-> BackwardRows(F[i], u_[i], pi_, K)]} :
        \E snew \in {f \in [1..Len(data_) -> UNION {B[i] : i \in 1..Len(data_)}] :
                        \A i \in 1..Len(data_) : f[i] \in B[i]} :
            /\ s_' = snew
            /\ underflow' = \E i \in 1..Len(data_) : \E t \in 1..Len(data_[i]) :
                                F[i][t].total = Zero
            /\ blind' = \E i \in 1..Len(data_) : BlindDraw(F[i], u_[i], pi_, snew[i])
    /\ pc' = "pi"
    /\ UNCHANGED <<data_, u_, m_, pi_, phi_, beta_, max_pi, K, min_u, wrow, new_pi,
                   n_ij, m_new>>
    /\ UNCHANGED mvvars

RECURSIVE SamplePiRows(_, _, _, _, _)
\* sample_pi, lines 215-217: rows i .. K-1 in turn
SamplePiRows(pi, maxpi, i, Kc, nps) ==
    IF i >= Kc THEN [pi |-> pi, max_pi |-> maxpi]
    ELSE LET r == SamplePiRow(pi, maxpi, i, Kc, nps[i + 1])
         IN  SamplePiRows(r.pi, r.max_pi, i + 1, Kc, nps)

\* sample_pi
SamplePi ==
    /\ pc = "pi"
    /\ \E nps \in [1..K -> Dirichlet(K + 1)] :
        LET r == SamplePiRows(pi_, Zero, 0, K, nps)
        IN  /\ pi_' = r.pi
            /\ max_pi' = r.max_pi
            /\ \E w \in 0..(K - 1) :
                /\ wrow' = w
                /\ new_pi' = nps[w + 1]
    /\ pc' = "phi"
    /\ underflow' = FALSE
    /\ blind' = FALSE
    /\ UNCHANGED <<data_, s_, u_, m_, counts_, phi_, beta_, K, min_u,
                   n_ij, m_new>>
    /\ UNCHANGED mvvars

\* sample_phi: empty body
SamplePhi ==
    /\ pc = "phi"
    /\ pc' = "m"
    /\ wrow' = 0
    /\ new_pi' = <<>>
    /\ UNCHANGED <<data_, s_, u_, m_, counts_, pi_, phi_, beta_, max_pi, K,
                   min_u, underflow, blind, n_ij, m_new>>
    /\ UNCHANGED mvvars

\* the values counts_[i][j] reads
CountReads(i, j) ==
    IF InRange(counts_, i, j) THEN {counts_[i + 1][j + 1]} ELSE 0..MaxCount

\* sample_m, line 252: the table count from the sampled index
TableCount(idx) == idx + 1

\* sample_m, lines 241-252: what one iteration of the inner loop may read
\* and sample for the pair p
PairDraws(p) ==
    UNION {{<<n, idx>> : idx \in SampleFromScores(n)} : n \in CountReads(p[1], p[2])}

StatePairs == (0..(K - 1)) \X (0..(K - 1))

\* the pairs whose entry m_ has
Stored == {p \in StatePairs : InRange(m_, p[1], p[2])}

\* sample_m: every pair is sampled; a store to an entry m_ does not have is
\* lost.  n_ij and m_new are those of any one iteration.
SampleM ==
    /\ pc = "m"
    /\ \E f \in {g \in [Stored -> UNION {PairDraws(p) : p \in Stored}] :
                    \A p \in Stored : g[p] \in PairDraws(p)} :
        /\ m_' = [i \in 1..Len(m_) |-> [j \in 1..Len(m_[i]) |->
                     IF <<i - 1, j - 1>> \in Stored
                     THEN TableCount(f[<<i - 1, j - 1>>][2])
                     ELSE m_[i][j]]]
        /\ \E d \in UNION {IF p \in Stored THEN {f[p]} ELSE PairDraws(p) :
                             p \in StatePairs} :
            /\ n_ij' = d[1]
            /\ m_new' = TableCount(d[2])
    /\ pc' = "beta"
    /\ UNCHANGED <<data_, s_, u_, counts_, pi_, phi_, beta_, max_pi, K,
                   min_u, wrow, new_pi, underflow, blind>>
    /\ UNCHANGED mvvars

\* sample_beta, lines 259-268, after sample_m
SampleBeta ==
    /\ pc = "beta"
    /\ \E nb \in Dirichlet(K + 1) :
        beta_' = [k \in 1..Len(beta_) |-> IF k <= K + 1 THEN nb[k] ELSE beta_[k]]
    /\ pc' = "u"
    /\ n_ij' = 0 /\ m_new' = 0
    /\ UNCHANGED <<data_, s_, u_, m_, counts_, pi_, phi_, max_pi, K,
                   min_u, wrow, new_pi, underflow, blind>>
    /\ UNCHANGED mvvars

\* whether the stage at pc accesses an element that does not exist
OutOfRange ==
    \/ pc = "grow" /\ RGt(max_pi, min_u) /\ ~InRange(counts_, K, 0)
    \/ pc = "s" /\ K > Len(phi_)
    \/ pc = "pi" /\ ~InRange(counts_, 0, 0)
    \/ pc = "m" /\ \E p \in StatePairs :
            ~InRange(counts_, p[1], p[2]) \/ ~InRange(m_, p[1], p[2])
    \/ pc = "beta" /\ K > Len(m_)

\* the program stops on an out-of-range access
Fault ==
    /\ OutOfRange
    /\ pc' = "fault"
    /\ UNCHANGED <<data_, s_, u_, m_, counts_, pi_, phi_, beta_, max_pi, K,
                   min_u, wrow, new_pi, underflow, blind, n_ij, m_new>>
    /\ UNCHANGED mvvars

\* sample_beam, called again and again
Next ==
    \/ SampleU
    \/ GrowState
    \/ GrowExit
    \/ SampleS
    \/ SamplePi
    \/ SamplePhi
    \/ SampleM
    \/ SampleBeta
    \/ Fault

(* --------------------------- specifications --------------------------- *)

\* the sampler; the ragged array under test stays as constructed
Init == HmmInit /\ MVInit
Spec == Init /\ [][Next]_vars

\* the ragged array alone; the sampler stays as constructed
InitMV ==
    /\ MVInit
    /\ HmmInit
    /\ Len(data_) = 1
    /\ max_pi = Zero
NextMV ==
    \/ MVConstruct
    \/ MVAppend
    \/ MVSizeCall
    \/ MVSumCall
SpecMV == InitMV /\ [][NextMV]_vars


(* ------------------------------- claims ------------------------------- *)

\* the probability of the transition realised at timestep t of sequence i
Realized(i, t) == pi_[PrevState(s_[i], t) + 1][s_[i][t] + 1]

SliceClears == \A p \in Positions(u_) : RLt(u_[p[1]][p[2]], Realized(p[1], p[2]))

\* C1: after sample_u, every slice value u[i][t] is strictly below the
\* probability of the realised transition pi[prev][s[i][t]] (prev = 0 at
\* t = 0), whenever those probabilities lie in (0, 1].
C1_SliceBelowRealized ==
    (/\ pc = "s"
     /\ \A p \in Positions(u_) :
           RGt(Realized(p[1], p[2]), Zero) /\ RGe(One, Realized(p[1], p[2])))
    => SliceClears

\* C2: after sample_pi, row i of pi_ is the Dirichlet vector drawn for row
\* i, component by component, and so every row sums to 1.
C2_RowIsDrawnVector ==
    pc = "phi" =>
        /\ pi_[wrow + 1] = new_pi
        /\ \A i \in 1..K : RSumSeq(pi_[i]) = One

\* C3: after sample_m, the table count sampled for a pair of states is at
\* most the transition count read for that pair, a count of 0 included.
C3_TableCountAtMostCount == pc = "beta" => m_new <= n_ij

\* number of t > 0 with s[i][t-1] = a and s[i][t] = b
NumTrans(a, b) ==
    Cardinality({p \in Positions(s_) :
                    p[2] > 1 /\ s_[p[1]][p[2] - 1] = a /\ s_[p[1]][p[2]] = b})

\* counts_[a][b], an entry counts_ does not have read as 0
CountAt(a, b) == IF InRange(counts_, a, b) THEN counts_[a + 1][b + 1] ELSE 0

\* C4: after sample_s, counts[a][b] is the number of transitions a -> b in
\* the state sequence just sampled, for every pair of instantiated states.
C4_CountsMatchSequence ==
    pc = "pi" => \A a, b \in 0..(K - 1) : CountAt(a, b) = NumTrans(a, b)

\* C5: after construction and after every completed sweep, pi_ has K rows
\* of K + 1 entries, beta_ has K + 1 entries and phi_ has K rows.
C5_ShapesAgreeWithK ==
    pc = "u" =>
        /\ Len(pi_) = K
        /\ \A i \in 1..Len(pi_) : Len(pi_[i]) = K + 1
        /\ Len(beta_) = K + 1
        /\ Len(phi_) = K

\* C6: K never decreases, and it increases by exactly one for every state
\* the growth loop adds (a row appended to pi_).
C6_KGrowsWithStates ==
    [][K' >= K /\ K' - K = Len(pi_') - Len(pi_)]_vars

\* a sweep that added states has completed
C6_Witness == pc = "u" /\ K > 1 /\ Len(pi_) = K

\* C7: the growth loop stops once K exceeds the configured safety bound:
\* no state is added beyond it.
C7_NoGrowthBeyondBound ==
    [][(pc = "grow" /\ K > KBound) => K' = K]_vars

\* C8: a forward-filter total of zero is reported: sample_s does not
\* complete having divided by it and sampled a state sequence.
C8_UnderflowReported == pc = "pi" => ~underflow

\* C9: size() returns one entry per row, the i-th being the length of
\* row i.
C9_SizeIsRowLengths ==
    mvop = "size" => mvres = [i \in 1..Len(mv) |-> Len(mv[i])]

====
